---- MODULE Spec2Model ----
(***************************************************************************)
(* Trajectory generation (src/src/S1/S1.py) and trace validation           *)
(* (src/src/Validation/validate_data.py).                                  *)
(*                                                                         *)
(* Scale.  The source fixes 50 satellites, 60 timestamps per chunk and 600 *)
(* seconds of simulation.  The model keeps every comparison and every      *)
(* index computation of the source and shrinks only these cardinalities:   *)
(* MAX_SAT_COUNT and the validators' group sizes are 2 instead of 50 / 4,  *)
(* a chunk holds 2 (S1) or 3 (S2) timestamps instead of 60 / 600.  The     *)
(* generator's time configuration (SIM_DURATION_SEC, TIME_STEP_SEC,        *)
(* CHUNK_DURATION_SEC) is drawn from small sets in Init.                   *)
(***************************************************************************)
EXTENDS Integers, Sequences, FiniteSets, TLC

VARIABLES
    config,         \* S1.py global configuration (lines 12, 13, 30)
    catalog,        \* starlink_sats with their look angles at T0 (lines 49-58)
    pc,             \* position of the run in __main__ / of the harness
    sat_metadata,   \* result of load_and_filter_satellites
    trajectory_df,  \* the DataFrame handed from sampler to validator to writer
    chunk_idx,      \* loop variable of split_and_save_csv
    files,          \* files in the trace directory, in the order written
    manifest,       \* manifest.json, or NoManifest
    verdicts,       \* what batch_validate reported, per file
    edits           \* number of changes made to the files after they were produced

vars == <<config, catalog, pc, sat_metadata, trajectory_df, chunk_idx, files,
          manifest, verdicts, edits>>

(***************************** bounds **************************************)
MaxDuration == 4
MaxCatalog == 3
MaxEdits == 2
TimeSteps == {1, 2}
ChunkDurations == {1, 2, 3}

(************************ S1.py configuration ******************************)
MS_PER_SEC == 1000
MIN_ALT_DEG == 0
MAX_DIST_KM == 2000
MAX_SAT_COUNT == 2
IP_PREFIX == "10.0.3."
SIM_DURATION_SEC == config.SIM_DURATION_SEC
TIME_STEP_SEC == config.TIME_STEP_SEC
CHUNK_DURATION_SEC == config.CHUNK_DURATION_SEC

(**************************** values ***************************************)
\* float('nan') in a numeric column; every ordered comparison with it is False.
NaN == 0 - 1000000
NoManifest == [scenario_name |-> "none"]

Gt(a, b) == a # NaN /\ b # NaN /\ a > b

Range(s) == {s[i] : i \in 1..Len(s)}

RECURSIVE SqrtIter(_, _, _)
SqrtIter(n, lo, hi) ==
    IF lo >= hi THEN lo
    ELSE LET mid == (lo + hi + 1) \div 2
         IN IF mid * mid <= n THEN SqrtIter(n, mid, hi) ELSE SqrtIter(n, lo, mid - 1)

\* np.sqrt on the values the model uses (perfect squares below 2^31).
Sqrt(n) == SqrtIter(n, 0, 46340)

(********************** load_and_filter_satellites *************************)
\* line 61: retained when either condition holds
IsVisible(sat) == sat.alt_deg > MIN_ALT_DEG \/ sat.dist_km < MAX_DIST_KM

\* lines 53-62: (dist_km, sat) pairs in catalog iteration order
visible_sats(cat) == SelectSeq(cat, IsVisible)

\* a sort that puts a later catalog entry before an earlier one of equal range
InsertByDist_unstable(sorted, sat) ==
    LET before == SelectSeq(sorted, LAMBDA x : x.dist_km < sat.dist_km)
        after  == SelectSeq(sorted, LAMBDA x : x.dist_km >= sat.dist_km)
    IN before \o <<sat>> \o after

\* insertion after every element whose key is <= the new key: what a stable
\* sort by key produces
InsertByDist(sorted, sat) ==
    LET before == SelectSeq(sorted, LAMBDA x : x.dist_km <= sat.dist_km)
        after  == SelectSeq(sorted, LAMBDA x : x.dist_km > sat.dist_km)
    IN before \o <<sat>> \o after

RECURSIVE SortedPrefix(_, _)
SortedPrefix(s, n) ==
    IF n = 0 THEN <<>> ELSE InsertByDist(SortedPrefix(s, n - 1), s[n])

\* line 65: sorted(visible_sats, key=lambda x: x[0])
visible_sats_sorted(cat) == SortedPrefix(visible_sats(cat), Len(visible_sats(cat)))

\* line 66: visible_sats_sorted[:MAX_SAT_COUNT]
selected_sats(cat) ==
    LET s == visible_sats_sorted(cat)
    IN SubSeq(s, 1, IF Len(s) < MAX_SAT_COUNT THEN Len(s) ELSE MAX_SAT_COUNT)

\* line 72: f"SAT_{idx:02d}", the decimal digits of idx padded to two places
sat_id(idx) ==
    IF idx < 100 THEN <<"SAT_", idx \div 10, idx % 10>>
    ELSE <<"SAT_", idx \div 100, (idx \div 10) % 10, idx % 10>>

\* line 73: f"{IP_PREFIX}{idx}"
sat_ip(idx) == [prefix |-> IP_PREFIX, host |-> idx]

\* lines 70-82
MakeMetadata(sel) ==
    [idx \in 1..Len(sel) |->
        [node_id |-> sat_id(idx), name |-> sel[idx].name, ip |-> sat_ip(idx),
         orbit_id |-> 0 - 1]]

load_and_filter_satellites ==
    /\ pc = "select"
    /\ sat_metadata' = MakeMetadata(selected_sats(catalog))
    /\ pc' = "sample"
    /\ UNCHANGED <<config, catalog, trajectory_df, chunk_idx, files, manifest,
                   verdicts, edits>>

(************************ calculate_sat_trajectory **************************)
\* What the external propagator and frame converter return for a satellite:
\* a position on a sphere of radius 7*scale km, or NaN after a decayed orbit.
OrbitKinds == {"nominal", "high", "low", "decayed"}

OrbitScale(kind) ==
    CASE kind = "nominal" -> 990
      [] kind = "high"    -> 1001
      [] kind = "low"     -> 909
      [] kind = "decayed" -> NaN

\* ECEF metres at a step: (2s, 3s, 6s) km rotated through the axes with time
Propagate(kind, step) ==
    LET s == OrbitScale(kind)
        p == <<2 * s * 1000, 3 * s * 1000, 6 * s * 1000>>
    IN IF s = NaN THEN <<NaN, NaN, NaN>>
       ELSE <<p[(step % 3) + 1], p[((step + 1) % 3) + 1], p[((step + 2) % 3) + 1]>>

\* wgs84.subpoint(...).elevation.km on a spherical Earth
Elevation(kind) == IF OrbitScale(kind) = NaN THEN NaN ELSE 7 * OrbitScale(kind) - 6371

GEN_COLS == {"time_ms", "node_id", "name", "type", "ecef_x", "ecef_y", "ecef_z",
             "altitude_km", "orbit_id", "ip"}

\* lines 111-122; the sampled values are whole metres and kilometres, which
\* round(., 2) leaves as they are
Trace(current_time_ms, sat_info, xyz, altitude_km) ==
    [time_ms |-> current_time_ms, node_id |-> sat_info.node_id,
     name |-> sat_info.name, type |-> "SAT",
     ecef_x |-> xyz[1], ecef_y |-> xyz[2], ecef_z |-> xyz[3],
     altitude_km |-> altitude_km, orbit_id |-> sat_info.orbit_id,
     ip |-> sat_info.ip]

\* line 89
total_steps == SIM_DURATION_SEC \div TIME_STEP_SEC

\* the loops nested the other way round: satellite by satellite
AllTraces_by_sat(meta, orbit) ==
    LET n == Len(meta)
    IN [i \in 1..(total_steps * n) |->
           LET s    == ((i - 1) \div total_steps) + 1
               step == (i - 1) % total_steps
           IN Trace(step * TIME_STEP_SEC * MS_PER_SEC, meta[s],
                    Propagate(orbit[s], step), Elevation(orbit[s]))]

\* lines 91-123: the outer loop over steps, the inner loop over sat_metadata
AllTraces(meta, orbit) ==
    LET n == Len(meta)
    IN [i \in 1..(total_steps * n) |->
           LET step == (i - 1) \div n
               s    == ((i - 1) % n) + 1
           IN Trace(step * TIME_STEP_SEC * MS_PER_SEC, meta[s],
                    Propagate(orbit[s], step), Elevation(orbit[s]))]

\* line 126: pd.DataFrame(all_traces); an empty list gives a frame with no columns
DataFrame(rows) == [columns |-> IF Len(rows) = 0 THEN {} ELSE GEN_COLS, rows |-> rows]

calculate_sat_trajectory ==
    /\ pc = "sample"
    /\ \E orbit \in [1..Len(sat_metadata) -> OrbitKinds] :
          trajectory_df' = DataFrame(AllTraces(sat_metadata, orbit))
    /\ pc' = "validate"
    /\ UNCHANGED <<config, catalog, sat_metadata, chunk_idx, files, manifest,
                   verdicts, edits>>

(************************ validate_trajectory_data **************************)
\* line 188
required_cols == GEN_COLS

\* line 195: sorted(df["time_ms"].unique()), as the set it enumerates
TimeSteps_of(rows) == {rows[i].time_ms : i \in 1..Len(rows)}

\* line 196: range(0, SIM_DURATION_SEC * MS_PER_SEC, TIME_STEP_SEC * MS_PER_SEC)
\* the multiples k*step with k*step < stop
expected_steps ==
    LET stop == SIM_DURATION_SEC * MS_PER_SEC
        step == TIME_STEP_SEC * MS_PER_SEC
    IN {k * step : k \in 0..((stop - 1) \div step)}

\* lines 204-206
radius_km(row) ==
    IF row.ecef_x = NaN \/ row.ecef_y = NaN \/ row.ecef_z = NaN THEN NaN
    ELSE Sqrt((row.ecef_x \div 1000) * (row.ecef_x \div 1000)
              + (row.ecef_y \div 1000) * (row.ecef_y \div 1000)
              + (row.ecef_z \div 1000) * (row.ecef_z \div 1000))

max_expected_radius_km == 7000

\* line 207
abnormal_radius(rows) ==
    {i \in 1..Len(rows) : Gt(radius_km(rows[i]), max_expected_radius_km)}

NumericCols == {"time_ms", "ecef_x", "ecef_y", "ecef_z", "altitude_km", "orbit_id",
                "radius_km", "heading_deg", "battery_pct"}

\* df.isnull() on one row
RowHasNull(row) == \E c \in (DOMAIN row) \cap NumericCols : row[c] = NaN

\* lines 204-206 as the in-place column assignment df["radius_km"] = ...
WithRadius(df) ==
    [columns |-> df.columns \cup {"radius_km"},
     rows |-> [i \in 1..Len(df.rows) |->
                 [c \in (DOMAIN df.rows[i]) \cup {"radius_km"} |->
                     IF c = "radius_km" THEN radius_km(df.rows[i]) ELSE df.rows[i][c]]]]

\* lines 185-218: the value of `valid`; a frame without columns raises KeyError
\* at line 195, which ends the run the same way as the ValueError of line 221
DataValid(df) ==
    /\ required_cols \subseteq df.columns
    /\ TimeSteps_of(df.rows) = expected_steps
    /\ abnormal_radius(df.rows) = {}
    /\ \A i \in 1..Len(df.rows) : ~RowHasNull(df.rows[i])

validate_trajectory_data ==
    /\ pc = "validate"
    /\ IF DataValid(trajectory_df)
       THEN /\ trajectory_df' = WithRadius(trajectory_df)
            /\ pc' = "split"
       ELSE /\ trajectory_df' = (IF trajectory_df.columns = {} THEN trajectory_df
                                 ELSE WithRadius(trajectory_df))
            /\ pc' = "failed"
    /\ UNCHANGED <<config, catalog, sat_metadata, chunk_idx, files, manifest,
                   verdicts, edits>>

(**************************** split_and_save_csv ****************************)
\* line 137
total_chunks == SIM_DURATION_SEC \div CHUNK_DURATION_SEC

\* lines 141-144
start_ms(c) == (c * CHUNK_DURATION_SEC) * MS_PER_SEC
end_ms(c) == (c * CHUNK_DURATION_SEC + CHUNK_DURATION_SEC) * MS_PER_SEC - 1

\* a window closed at the next chunk's first millisecond
InChunk_closed(row, c) == row.time_ms >= start_ms(c) /\ row.time_ms <= end_ms(c) + 1

\* lines 147-150
InChunk(row, c) == row.time_ms >= start_ms(c) /\ row.time_ms < end_ms(c) + 1

chunk_df(df, c) == SelectSeq(df.rows, LAMBDA row : InChunk(row, c))

\* line 153: f"sat_trace_{start_ms}_{end_ms}.csv"; an integer prints as its
\* decimal digits, with a leading '-' when negative
FileName(prefix, s, e, ext) == [prefix |-> prefix, startMs |-> s, endMs |-> e, ext |-> ext]

filename(c) == FileName("sat_trace_", start_ms(c), end_ms(c), ".csv")

\* lines 166-170
trace_files ==
    [i \in 1..total_chunks |->
        FileName("sat_trace_", (i - 1) * CHUNK_DURATION_SEC * MS_PER_SEC,
                 ((i - 1) + 1) * CHUNK_DURATION_SEC * MS_PER_SEC - 1, ".csv")]

\* lines 161-171
Manifest ==
    [scenario_name |-> "rescue_mission_2026_v1",
     sim_duration_sec |-> SIM_DURATION_SEC,
     sat_count |-> MAX_SAT_COUNT,
     trace_files |-> trace_files]

\* lines 139-158: one iteration of the loop; to_csv either writes the file or
\* raises, and the exception leaves split_and_save_csv and __main__
save_chunk ==
    /\ pc = "split"
    /\ chunk_idx < total_chunks
    /\ \/ /\ files' = Append(files, [name |-> filename(chunk_idx),
                                     columns |-> trajectory_df.columns,
                                     rows |-> chunk_df(trajectory_df, chunk_idx),
                                     readable |-> TRUE])
          /\ chunk_idx' = chunk_idx + 1
          /\ pc' = "split"
       \/ /\ pc' = "failed"
          /\ UNCHANGED <<files, chunk_idx>>
    /\ UNCHANGED <<config, catalog, sat_metadata, trajectory_df, manifest,
                   verdicts, edits>>

\* a manifest written without waiting for the loop to end
write_manifest_early ==
    /\ pc = "split"
    /\ chunk_idx <= total_chunks
    /\ manifest = NoManifest
    /\ manifest' = Manifest
    /\ pc' = IF chunk_idx = total_chunks THEN "done" ELSE "split"
    /\ UNCHANGED <<config, catalog, sat_metadata, trajectory_df, chunk_idx, files,
                   verdicts, edits>>

\* lines 160-178, reached when the loop has run to its end
write_manifest ==
    /\ pc = "split"
    /\ chunk_idx = total_chunks
    /\ \/ /\ manifest' = Manifest
          /\ pc' = "done"
       \/ /\ pc' = "failed"
          /\ UNCHANGED manifest
    /\ UNCHANGED <<config, catalog, sat_metadata, trajectory_df, chunk_idx, files,
                   verdicts, edits>>

(***************************************************************************)
(*                 validate_data.py: the two validators                    *)
(***************************************************************************)
\* the literals of validate_s1_csv (lines 32, 44, 47) and validate_s2_csv
\* (lines 93, 105, 102, 108), group sizes and counts at model scale
S1_GROUP_SIZE == 2
S1_STEP_MS == 1000
S1_CHUNK_STEPS == 2
S2_GROUP_SIZE == 2
S2_STEP_MS == 100
S2_CHUNK_STEPS == 3
S2_ROW_COUNT == 6
MOVE_THRESHOLD == 5

S1_REQUIRED_COLS == {"time_ms", "node_id", "name", "type", "ecef_x", "ecef_y", "ecef_z",
                     "altitude_km", "orbit_id", "ip", "radius_km"}
S2_REQUIRED_COLS == {"time_ms", "node_id", "role", "type", "ecef_x", "ecef_y", "ecef_z",
                     "ip", "heading_deg", "battery_pct"}

\* `return "FAIL", reason`
Fail(rule) == [status |-> "FAIL", rule |-> rule]
\* an exception raised inside the try block: lines 69-70 and 215-216
Caught(exc) == [status |-> "ERROR", rule |-> exc]
Pass == [status |-> "PASS", rule |-> "none"]
Skipped == [status |-> "SKIP", rule |-> "none"]

\* re.match(r"^<prefix>\d+_\d+\.csv$", file_name): \d+ matches the decimal
\* form of a non-negative integer and nothing with a sign
NameMatches(name, prefix) ==
    /\ name.prefix = prefix
    /\ name.startMs >= 0
    /\ name.endMs >= 0
    /\ name.ext = ".csv"

\* df.isnull().any().any()
AnyNull(rows) == \E i \in 1..Len(rows) : RowHasNull(rows[i])

\* df.groupby("time_ms").size()
GroupSize(rows, t) == Cardinality({i \in 1..Len(rows) : rows[i].time_ms = t})

\* a group check that reports only the timestamps with more than n rows
abnormal_group_oversize(rows, n) ==
    {t \in TimeSteps_of(rows) : GroupSize(rows, t) > n}

\* time_group_size[time_group_size != n]
abnormal_group(rows, n) == {t \in TimeSteps_of(rows) : GroupSize(rows, t) # n}

\* df[df.duplicated(subset=["time_ms", "node_id"])]: the later rows of a pair
duplicate_node(rows) ==
    {i \in 1..Len(rows) :
        \E j \in 1..(i - 1) :
            rows[j].time_ms = rows[i].time_ms /\ rows[j].node_id = rows[i].node_id}

RECURSIVE SortSet(_)
\* np.sort(df["time_ms"].unique())
SortSet(S) ==
    IF S = {} THEN <<>>
    ELSE LET m == CHOOSE x \in S : \A y \in S : x <= y
         IN <<m>> \o SortSet(S \ {m})

unique_time(rows) == SortSet(TimeSteps_of(rows))

\* np.diff
Diff(s) == [i \in 1..(Len(s) - 1) |-> s[i + 1] - s[i]]

\* np.all(time_step == step)
AllStepsAre(rows, step) ==
    LET d == Diff(unique_time(rows)) IN \A i \in 1..Len(d) : d[i] = step

\* df["ip"].str.match(r"^<prefix>\d{1,3}$")
IpMatches(ip, prefix) == ip.prefix = prefix /\ ip.host >= 0 /\ ip.host <= 999

\* validate_s1_csv, lines 10-70.  Line 18 builds its reason with an f-string
\* that reads the names startMs and endMs, which nothing defines: evaluating it
\* raises NameError before the return.  Line 45 calls .unique() on the ndarray
\* np.diff returned, which has no such method: AttributeError.  Both are
\* caught at line 69.
validate_s1_csv(file) ==
    LET rows == file.rows IN
    IF ~file.readable THEN Caught("read")
    ELSE IF ~NameMatches(file.name, "sat_trace_") THEN Caught("NameError")
    ELSE IF ~(S1_REQUIRED_COLS \subseteq file.columns) THEN Fail("columns")
    ELSE IF AnyNull(rows) THEN Fail("null")
    ELSE IF abnormal_group(rows, S1_GROUP_SIZE) # {} THEN Fail("group_size")
    ELSE IF duplicate_node(rows) # {} THEN Fail("duplicate")
    ELSE IF Len(unique_time(rows)) = 0 THEN Fail("no_data")
    ELSE IF ~AllStepsAre(rows, S1_STEP_MS) THEN Caught("AttributeError")
    ELSE IF Len(unique_time(rows)) # S1_CHUNK_STEPS THEN Fail("timestamp_count")
    ELSE IF \E i \in 1..Len(rows) : rows[i].type # "SAT" THEN Fail("type")
    ELSE IF \E i \in 1..Len(rows) :
                rows[i].altitude_km < 200 \/ rows[i].altitude_km > 1200
         THEN Fail("altitude")
    ELSE IF \E i \in 1..Len(rows) :
                rows[i].radius_km < 6371 \/ rows[i].radius_km > 7000
         THEN Fail("radius")
    ELSE IF \E i \in 1..Len(rows) : ~IpMatches(rows[i].ip, "10.0.3.") THEN Fail("ip")
    ELSE Pass

(************************** validate_s2_csv ********************************)
\* Positions of the ground/aerial profile are kept in metres east, north and
\* up of the scenario anchor (30 N, 104 E, on the ellipsoid): displacements
\* have the same length as in ECEF, and the external ecef2geodetic and the
\* ECEF norm become the three operators below.
ANCHOR_RADIUS_M == 6372824
ecef_mag_m(row) == ANCHOR_RADIUS_M + row.ecef_z
lat_mdeg(row) == 30000 + (row.ecef_y \div 111)
lon_mdeg(row) == 104000 + (row.ecef_x \div 96)
alt_m(row) == row.ecef_z

Abs(x) == IF x < 0 THEN 0 - x ELSE x

RECURSIVE SortRows(_)
\* .sort_values("time_ms") on the rows of one node
SortRows(S) ==
    IF S = {} THEN <<>>
    ELSE LET m == CHOOSE x \in S : \A y \in S : x.time_ms <= y.time_ms
         IN <<m>> \o SortRows(S \ {m})

uav_mask(row) == row.type = "UAV"
gs_mask(row) == row.type = "GS"

\* uav_df["node_id"].unique()
UavIds(rows) == {rows[i].node_id : i \in {j \in 1..Len(rows) : uav_mask(rows[j])}}

\* lines 186-194 for one uid: the rows of uav_df with that node_id
BatteryJump(rows, uid) ==
    LET single == SortRows({rows[i] : i \in {j \in 1..Len(rows) :
                                uav_mask(rows[j]) /\ rows[j].node_id = uid}})
    IN \E i \in 1..(Len(single) - 1) :
          LET battery_diff == single[i + 1].battery_pct - single[i].battery_pct
              time_diff_ms == single[i + 1].time_ms - single[i].time_ms
          IN time_diff_ms # 0 /\ Abs(battery_diff) * 1000 > 10 * time_diff_ms

\* pos_diff > MOVE_THRESHOLD, both sides squared
Moving(a, b) ==
    (b.ecef_x - a.ecef_x) * (b.ecef_x - a.ecef_x)
    + (b.ecef_y - a.ecef_y) * (b.ecef_y - a.ecef_y)
    + (b.ecef_z - a.ecef_z) * (b.ecef_z - a.ecef_z) > MOVE_THRESHOLD * MOVE_THRESHOLD

\* the role of the earlier sample of the step
RoleAt_earlier(single, i) == single[i].role

\* roles = single_uav["role"].values[1:] against np.diff: the role at i + 1
\* belongs to the step from i to i + 1
RoleAt(single, i) == single[i + 1].role

\* lines 199-204 for one uid: the rows of df with that node_id
invalid_role(rows, uid) ==
    LET single_uav == SortRows({rows[i] : i \in {j \in 1..Len(rows) :
                                    rows[j].node_id = uid}})
    IN {i \in 1..(Len(single_uav) - 1) :
           Moving(single_uav[i], single_uav[i + 1]) /\ RoleAt(single_uav, i) # "RELAY"}

\* lines 111-166, after the timestamp checks
CoordinateVerdict(rows) ==
    IF \E i \in 1..Len(rows) :
          ecef_mag_m(rows[i]) < 6371 * 1000 \/ ecef_mag_m(rows[i]) > 7000 * 1000
    THEN Fail("ecef")
    ELSE IF \E i \in 1..Len(rows) :
               \/ lat_mdeg(rows[i]) < 29000 \/ lat_mdeg(rows[i]) > 31000
               \/ lon_mdeg(rows[i]) < 103000 \/ lon_mdeg(rows[i]) > 105000
    THEN Fail("latlon")
    ELSE IF \E i \in 1..Len(rows) :
               uav_mask(rows[i]) /\ (alt_m(rows[i]) < 500 \/ alt_m(rows[i]) > 5000)
    THEN Fail("uav_alt")
    ELSE IF \E i \in 1..Len(rows) : gs_mask(rows[i]) /\ alt_m(rows[i]) > 1000
    THEN Fail("gs_alt")
    ELSE IF Cardinality({alt_m(rows[i]) : i \in {j \in 1..Len(rows) : gs_mask(rows[j])}}) > 1
    THEN Fail("gs_drift")
    ELSE Pass

\* lines 171-211
DynamicVerdict(rows) ==
    IF \E i \in 1..Len(rows) : gs_mask(rows[i]) /\ rows[i].heading_deg # 0 - 1
    THEN Fail("gs_heading")
    ELSE IF \E i \in 1..Len(rows) :
               uav_mask(rows[i]) /\ (rows[i].heading_deg % 360 < 0
                                     \/ rows[i].heading_deg % 360 > 360)
    THEN Fail("uav_heading")
    ELSE IF \E i \in 1..Len(rows) : gs_mask(rows[i]) /\ rows[i].battery_pct # 0 - 1
    THEN Fail("gs_battery")
    ELSE IF \E uid \in UavIds(rows) : BatteryJump(rows, uid)
    THEN Fail("battery_rate")
    ELSE IF \E uid \in UavIds(rows) : invalid_role(rows, uid) # {}
    THEN Fail("role")
    ELSE IF \E i \in 1..Len(rows) : ~IpMatches(rows[i].ip, "10.0.0.") THEN Fail("ip")
    ELSE Pass

\* validate_s2_csv, lines 73-216; lines 81 and 106 raise as lines 18 and 45 do
validate_s2_csv(file) ==
    LET rows == file.rows IN
    IF ~file.readable THEN Caught("read")
    ELSE IF ~NameMatches(file.name, "uav_trace_") THEN Caught("NameError")
    ELSE IF ~(S2_REQUIRED_COLS \subseteq file.columns) THEN Fail("columns")
    ELSE IF AnyNull(rows) THEN Fail("null")
    ELSE IF abnormal_group(rows, S2_GROUP_SIZE) # {} THEN Fail("group_size")
    ELSE IF duplicate_node(rows) # {} THEN Fail("duplicate")
    ELSE IF Len(unique_time(rows)) # S2_CHUNK_STEPS THEN Fail("timestamp_count")
    ELSE IF ~AllStepsAre(rows, S2_STEP_MS) THEN Caught("AttributeError")
    ELSE IF Len(rows) # S2_ROW_COUNT THEN Fail("row_count")
    ELSE IF CoordinateVerdict(rows) # Pass THEN CoordinateVerdict(rows)
    ELSE DynamicVerdict(rows)

(****************************** batch_validate ******************************)
\* lines 227-236: the validator is chosen by the start of the file name
Dispatch(file) ==
    IF file.name.prefix = "sat_trace_" THEN validate_s1_csv(file)
    ELSE IF file.name.prefix = "uav_trace_" THEN validate_s2_csv(file)
    ELSE Skipped

batch_validate ==
    /\ pc \in {"done", "tamper"}
    /\ Len(files) > 0
    /\ verdicts' = [i \in 1..Len(files) |-> Dispatch(files[i])]
    /\ pc' = "validated"
    /\ UNCHANGED <<config, catalog, sat_metadata, trajectory_df, chunk_idx, files,
                   manifest, edits>>

(***************************************************************************)
(* Validation of files that did not come straight from the generator: one  *)
(* conforming file of either profile, changed in at most MaxEdits places.  *)
(***************************************************************************)
NominalMeta == MakeMetadata(<<[name |-> 1], [name |-> 2]>>)

S1NominalRows ==
    [i \in 1..(S1_CHUNK_STEPS * S1_GROUP_SIZE) |->
        LET step == (i - 1) \div S1_GROUP_SIZE
            s    == ((i - 1) % S1_GROUP_SIZE) + 1
        IN Trace(step * S1_STEP_MS, NominalMeta[s], Propagate("nominal", step),
                 Elevation("nominal"))]

S1Nominal ==
    [name |-> FileName("sat_trace_", 0, S1_CHUNK_STEPS * S1_STEP_MS - 1, ".csv"),
     columns |-> S1_REQUIRED_COLS,
     rows |-> WithRadius([columns |-> GEN_COLS, rows |-> S1NominalRows]).rows,
     readable |-> TRUE]

GsRow(t) ==
    [time_ms |-> t, node_id |-> <<"GS_", 0, 1>>, role |-> "GATEWAY", type |-> "GS",
     ecef_x |-> 0, ecef_y |-> 0, ecef_z |-> 500,
     ip |-> [prefix |-> "10.0.0.", host |-> 1], heading_deg |-> 0 - 1,
     battery_pct |-> 0 - 1]

UavRow(t) ==
    [time_ms |-> t, node_id |-> <<"UAV_", 0, 1>>, role |-> "RELAY", type |-> "UAV",
     ecef_x |-> 100, ecef_y |-> 0, ecef_z |-> 1000,
     ip |-> [prefix |-> "10.0.0.", host |-> 2], heading_deg |-> 90,
     battery_pct |-> 80]

S2Nominal ==
    [name |-> FileName("uav_trace_", 0, S2_CHUNK_STEPS * S2_STEP_MS - 1, ".csv"),
     columns |-> S2_REQUIRED_COLS,
     rows |-> [i \in 1..(S2_CHUNK_STEPS * S2_GROUP_SIZE) |->
                 LET t == ((i - 1) \div S2_GROUP_SIZE) * S2_STEP_MS
                 IN IF (i - 1) % S2_GROUP_SIZE = 0 THEN GsRow(t) ELSE UavRow(t)],
     readable |-> TRUE]

TheFile == files[1]

Tamper(file) ==
    /\ pc = "tamper"
    /\ edits < MaxEdits
    /\ files' = <<file>>
    /\ edits' = edits + 1
    /\ UNCHANGED <<config, catalog, pc, sat_metadata, trajectory_df, chunk_idx,
                   manifest, verdicts>>

Without(s, r) == SubSeq(s, 1, r - 1) \o SubSeq(s, r + 1, Len(s))

rename_file ==
    \E n \in {0 - 1} : Tamper([TheFile EXCEPT !.name.startMs = n])

corrupt_file == Tamper([TheFile EXCEPT !.readable = FALSE])

drop_column ==
    \E c \in {"ip", "type"} \cap TheFile.columns :
        Tamper([TheFile EXCEPT
                  !.columns = @ \ {c},
                  !.rows = [i \in 1..Len(@) |-> [k \in (DOMAIN @[i]) \ {c} |-> @[i][k]]]])

delete_row ==
    \E r \in 1..Len(TheFile.rows) : Tamper([TheFile EXCEPT !.rows = Without(@, r)])

copy_row ==
    \E r \in 1..Len(TheFile.rows) : Tamper([TheFile EXCEPT !.rows = Append(@, @[r])])

\* a row takes the node_id of another row of its timestamp
set_node ==
    \E r, q \in 1..Len(TheFile.rows) :
        /\ "node_id" \in TheFile.columns /\ "time_ms" \in TheFile.columns
        /\ TheFile.rows[r].time_ms = TheFile.rows[q].time_ms
        /\ TheFile.rows[r].node_id # TheFile.rows[q].node_id
        /\ Tamper([TheFile EXCEPT !.rows[r].node_id = TheFile.rows[q].node_id])

\* all rows of one timestamp move to a later one
shift_group ==
    \E t \in TimeSteps_of(TheFile.rows) : \E d \in {S1_STEP_MS, S2_STEP_MS} :
        Tamper([TheFile EXCEPT
                  !.rows = [i \in 1..Len(@) |->
                              IF @[i].time_ms = t THEN [@[i] EXCEPT !.time_ms = t + d]
                              ELSE @[i]]])

CellValues(c) ==
    CASE c = "type" -> {"UNKNOWN", "UAV"}
      [] c = "role" -> {"SCOUT"}
      [] c = "battery_pct" -> {50}
      [] c = "heading_deg" -> {400}
      [] c = "ecef_x" -> {NaN}
      [] c = "altitude_km" -> {100}
      [] c = "radius_km" -> {7100}

set_cell ==
    \E r \in 1..Len(TheFile.rows) :
      \E c \in {"type", "role", "battery_pct", "heading_deg", "ecef_x", "altitude_km",
                "radius_km"} \cap TheFile.columns :
        \E v \in CellValues(c) : Tamper([TheFile EXCEPT !.rows[r][c] = v])

move_row ==
    \E r \in 1..Len(TheFile.rows) : \E d \in {MOVE_THRESHOLD, MOVE_THRESHOLD + 1} :
        /\ TheFile.rows[r].ecef_x # NaN
        /\ Tamper([TheFile EXCEPT !.rows[r].ecef_x = @ + d])

InitVal ==
    /\ config = [SIM_DURATION_SEC |-> 2, TIME_STEP_SEC |-> 1, CHUNK_DURATION_SEC |-> 2]
    /\ catalog = <<>>
    /\ pc = "tamper"
    /\ sat_metadata = <<>>
    /\ trajectory_df = [columns |-> {}, rows |-> <<>>]
    /\ chunk_idx = 0
    /\ files \in {<<S1Nominal>>, <<S2Nominal>>}
    /\ manifest = NoManifest
    /\ verdicts = <<>>
    /\ edits = 0

NextVal ==
    \/ rename_file
    \/ corrupt_file
    \/ drop_column
    \/ delete_row
    \/ copy_row
    \/ set_node
    \/ shift_group
    \/ set_cell
    \/ move_row
    \/ batch_validate

SpecVal == InitVal /\ [][NextVal]_vars


(******************************* the run ***********************************)
Candidates ==
    [name : {"STARLINK"}, alt_deg : {0, 10}, dist_km : {1500, 2000}]

\* a catalog entry is named by its place in the TLE file
Named(cat) == [i \in 1..Len(cat) |-> [cat[i] EXCEPT !.name = i]]

Catalogs ==
    UNION {{Named(c) : c \in [1..n -> Candidates]} : n \in 0..MaxCatalog}

Configs ==
    [SIM_DURATION_SEC : 1..MaxDuration, TIME_STEP_SEC : TimeSteps,
     CHUNK_DURATION_SEC : ChunkDurations]

Init ==
    /\ config \in Configs
    /\ catalog \in Catalogs
    /\ pc = "select"
    /\ sat_metadata = <<>>
    /\ trajectory_df = [columns |-> {}, rows |-> <<>>]
    /\ chunk_idx = 0
    /\ files = <<>>
    /\ manifest = NoManifest
    /\ verdicts = <<>>
    /\ edits = 0

Next ==
    \/ load_and_filter_satellites
    \/ calculate_sat_trajectory
    \/ validate_trajectory_data
    \/ save_chunk
    \/ write_manifest
    \/ batch_validate

Spec == Init /\ [][Next]_vars

(***************************************************************************)
(*                    Properties of the generation run                     *)
(***************************************************************************)
Sampled == pc \notin {"select", "sample"}
Selected == pc # "select"
ChunksWritten == pc \in {"done", "validated"} \/ (pc = "split" /\ chunk_idx = total_chunks)
Min(a, b) == IF a < b THEN a ELSE b

\* how often a row occurs in the written files
Placements(row) ==
    {<<f, j>> \in (1..Len(files)) \X (1..Len(trajectory_df.rows)) :
        j <= Len(files[f].rows) /\ files[f].rows[j] = row}

Exact == SIM_DURATION_SEC % CHUNK_DURATION_SEC = 0

\* C1: when SIM_DURATION_SEC is an exact multiple of CHUNK_DURATION_SEC and
\* split_and_save_csv has written its chunks, there are exactly
\* SIM_DURATION_SEC / CHUNK_DURATION_SEC files; file c is named with
\* start_ms = c*chunk_ms and end_ms = (c+1)*chunk_ms - 1, so the end of one is
\* the start of the next minus 1; and every row of the trace is in exactly one
\* file, the one whose window holds its time_ms, and no file holds another row.
C1_ChunkPartition ==
    (ChunksWritten /\ Exact) =>
        LET chunk_ms == CHUNK_DURATION_SEC * MS_PER_SEC
        IN /\ Len(files) * CHUNK_DURATION_SEC = SIM_DURATION_SEC
           /\ \A f \in 1..Len(files) :
                 /\ files[f].name.startMs = (f - 1) * chunk_ms
                 /\ files[f].name.endMs = f * chunk_ms - 1
                 /\ f < Len(files) =>
                       files[f].name.endMs = files[f + 1].name.startMs - 1
                 /\ \A j \in 1..Len(files[f].rows) :
                       /\ files[f].name.startMs <= files[f].rows[j].time_ms
                       /\ files[f].rows[j].time_ms <= files[f].name.endMs
                       /\ files[f].rows[j] \in Range(trajectory_df.rows)
           /\ \A i \in 1..Len(trajectory_df.rows) :
                 Cardinality(Placements(trajectory_df.rows[i])) = 1

C1_Witness ==
    /\ pc = "done" /\ Exact
    /\ Len(files) >= 2
    /\ Len(files[2].rows) >= 2
    /\ TIME_STEP_SEC = 2

RECURSIVE LexLess(_, _)
\* string order on two sequences of characters
LexLess(a, b) ==
    IF Len(b) = 0 THEN FALSE
    ELSE IF Len(a) = 0 THEN TRUE
    ELSE IF Head(a) # Head(b) THEN Head(a) < Head(b)
    ELSE LexLess(Tail(a), Tail(b))

\* "SAT_01" < "SAT_02": the common prefix, then the digits
NodeIdLess(a, b) == LexLess(Tail(a), Tail(b))

GridRows(t, id) ==
    {i \in 1..Len(trajectory_df.rows) :
        trajectory_df.rows[i].time_ms = t /\ trajectory_df.rows[i].node_id = id}

GridTimes == {k * (TIME_STEP_SEC * MS_PER_SEC) : k \in 0..(total_steps - 1)}

DenseGrid ==
    /\ \A i \in 1..Len(trajectory_df.rows) :
          /\ trajectory_df.rows[i].time_ms \in GridTimes
          /\ \E s \in 1..Len(sat_metadata) :
                trajectory_df.rows[i].node_id = sat_metadata[s].node_id
    /\ \A t \in GridTimes : \A s \in 1..Len(sat_metadata) :
          Cardinality(GridRows(t, sat_metadata[s].node_id)) = 1

GridOrdered ==
    \A i \in 1..(Len(trajectory_df.rows) - 1) :
        LET a == trajectory_df.rows[i]
            b == trajectory_df.rows[i + 1]
        IN \/ a.time_ms < b.time_ms
           \/ a.time_ms = b.time_ms /\ NodeIdLess(a.node_id, b.node_id)

Qualifying == {i \in 1..Len(catalog) :
                  catalog[i].alt_deg > MIN_ALT_DEG \/ catalog[i].dist_km < MAX_DIST_KM}

\* the catalog entry behind the i-th returned node
Origin(i) == sat_metadata[i].name
DistOf(i) == catalog[Origin(i)].dist_km
Chosen == {Origin(i) : i \in 1..Len(sat_metadata)}

\* catalog entry a comes before b by range, ties by catalog order
Nearer(a, b) ==
    \/ catalog[a].dist_km < catalog[b].dist_km
    \/ catalog[a].dist_km = catalog[b].dist_km /\ a < b

\* C3: load_and_filter_satellites returns min(MAX_SAT_COUNT, Q) nodes, Q the
\* number of catalog entries with elevation > MIN_ALT_DEG or range <
\* MAX_DIST_KM; they are qualifying entries in non-decreasing range with ties
\* in catalog order, every qualifying entry left out is no nearer than any
\* returned one, and the i-th node has the node_id and address made from i.
C3_Selection ==
    Selected =>
        /\ Len(sat_metadata) = Min(MAX_SAT_COUNT, Cardinality(Qualifying))
        /\ Chosen \subseteq Qualifying
        /\ \A i \in 1..(Len(sat_metadata) - 1) : Nearer(Origin(i), Origin(i + 1))
        /\ \A q \in Qualifying \ Chosen : \A i \in 1..Len(sat_metadata) :
              Nearer(Origin(i), q)
        /\ \A i \in 1..Len(sat_metadata) :
              /\ sat_metadata[i].node_id = <<"SAT_", i \div 10, i % 10>>
              /\ sat_metadata[i].ip = [prefix |-> "10.0.3.", host |-> i]
        /\ \A i, j \in 1..Len(sat_metadata) :
              i # j => /\ sat_metadata[i].node_id # sat_metadata[j].node_id
                       /\ sat_metadata[i].ip # sat_metadata[j].ip

C3_Witness ==
    /\ pc = "sample"
    /\ Cardinality(Qualifying) > MAX_SAT_COUNT
    /\ Len(sat_metadata) = MAX_SAT_COUNT
    /\ DistOf(1) = DistOf(2)
    /\ catalog[Origin(1)].alt_deg <= MIN_ALT_DEG

\* C6: a manifest exists only when every chunk file of the run has been
\* written, and then its trace_files are the names of the written files in
\* the order written; a run that failed has no manifest.
C6_ManifestAfterChunks ==
    /\ manifest # NoManifest =>
          /\ Len(files) = total_chunks
          /\ chunk_idx = total_chunks
          /\ manifest.trace_files = [i \in 1..Len(files) |-> files[i].name]
          /\ \A i \in 1..(Len(files) - 1) :
                files[i].name.startMs < files[i + 1].name.startMs
    /\ pc = "failed" => manifest = NoManifest

C6_Witness ==
    /\ pc = "done"
    /\ manifest # NoManifest
    /\ Len(manifest.trace_files) >= 3
    /\ Len(files) = Len(manifest.trace_files)

\* the trace breaks one of the structural rules named for generation
RowCountWrong ==
    \E t \in TimeSteps_of(trajectory_df.rows) :
        Cardinality({i \in 1..Len(trajectory_df.rows) : trajectory_df.rows[i].time_ms = t})
            # Len(sat_metadata)
Discontinuous == TimeSteps_of(trajectory_df.rows) # expected_steps
CoordinateOutOfRange ==
    \E i \in 1..Len(trajectory_df.rows) :
        LET r == radius_km(trajectory_df.rows[i])
        IN r # NaN /\ (r < 6371 \/ r > 7000)
NullField == \E i \in 1..Len(trajectory_df.rows) : RowHasNull(trajectory_df.rows[i])
StructurallyInvalid == RowCountWrong \/ Discontinuous \/ CoordinateOutOfRange \/ NullField
NothingWritten == files = <<>> /\ manifest = NoManifest

\* C7: a sampled trace with a wrong per-timestamp row count, discontinuous
\* timestamps, an out-of-range coordinate or a null field ends the run in
\* validate_trajectory_data, and no chunk file and no manifest is written.
C7_AllOrNothing ==
    (pc \notin {"select", "sample", "validate"} /\ StructurallyInvalid) =>
        (pc = "failed" /\ NothingWritten)

\* C8: when CHUNK_DURATION_SEC does not divide SIM_DURATION_SEC the run ends
\* with an error before any chunk file or manifest is written.
C8_UnevenChunksAbort ==
    ~Exact => (NothingWritten /\ pc \notin {"done", "validated"})

\* the node ids found in the written chunk files
WrittenNodeIds ==
    UNION {{files[f].rows[j].node_id : j \in 1..Len(files[f].rows)} : f \in 1..Len(files)}

\* C9: the node count in the manifest is the number of nodes selected for the
\* run, which is the number of distinct node_id values in the chunk files.
C9_ManifestNodeCount ==
    manifest # NoManifest =>
        /\ manifest.sat_count = Len(sat_metadata)
        /\ (Len(files) > 0 => manifest.sat_count = Cardinality(WrittenNodeIds))

\* the generator configured as the validator expects its files: the
\* validator's step, its number of timestamps per chunk, whole chunks
ReferenceConfig ==
    /\ TIME_STEP_SEC * MS_PER_SEC = S1_STEP_MS
    /\ CHUNK_DURATION_SEC * MS_PER_SEC = S1_CHUNK_STEPS * S1_STEP_MS
    /\ Exact

SamplesInBand ==
    \A i \in 1..Len(trajectory_df.rows) :
        LET row == trajectory_df.rows[i]
        IN /\ row.radius_km >= 6371 /\ row.radius_km <= 7000
           /\ row.altitude_km >= 200 /\ row.altitude_km <= 1200

\* C4: every chunk file of a completed generation run (selection, sampling,
\* validate_trajectory_data passing, split_and_save_csv), also of a run that
\* selected fewer than MAX_SAT_COUNT nodes, gets PASS from validate_s1_csv.
\* Stated for runs in the reference configuration whose samples all lie in
\* the validator's altitude and radius bands.
C4_RoundTrip ==
    (pc = "validated" /\ ReferenceConfig /\ SamplesInBand) =>
        \A i \in 1..Len(verdicts) : verdicts[i].status = "PASS"

(***************************************************************************)
(*                      Properties of the validators                       *)
(***************************************************************************)
Profile(file) == IF file.name.prefix = "sat_trace_" THEN "S1" ELSE "S2"
StepOf(file) == IF Profile(file) = "S1" THEN S1_STEP_MS ELSE S2_STEP_MS
CountOf(file) == IF Profile(file) = "S1" THEN S1_CHUNK_STEPS ELSE S2_CHUNK_STEPS
GroupOf(file) == IF Profile(file) = "S1" THEN S1_GROUP_SIZE ELSE S2_GROUP_SIZE
RequiredOf(file) == IF Profile(file) = "S1" THEN S1_REQUIRED_COLS ELSE S2_REQUIRED_COLS

\* the common rules 1-6 a file breaks
Rule1(file) ==
    ~(file.name.startMs >= 0 /\ file.name.endMs >= 0 /\ file.name.ext = ".csv")
Rule2(file) ==
    \/ ~(RequiredOf(file) \subseteq file.columns)
    \/ \E i \in 1..Len(file.rows) : RowHasNull(file.rows[i])
Rule3(file) ==
    \E i \in 1..Len(file.rows) :
        Cardinality({j \in 1..Len(file.rows) :
                        file.rows[j].time_ms = file.rows[i].time_ms}) # GroupOf(file)
Rule4(file) ==
    \E i, j \in 1..Len(file.rows) :
        /\ i # j
        /\ file.rows[i].time_ms = file.rows[j].time_ms
        /\ file.rows[i].node_id = file.rows[j].node_id
Rule5(file) ==
    LET U  == {file.rows[i].time_ms : i \in 1..Len(file.rows)}
        lo == CHOOSE m \in U : \A x \in U : m <= x
    IN \/ Cardinality(U) # CountOf(file)
       \/ (U # {} /\ U # {lo + k * StepOf(file) : k \in 0..(Cardinality(U) - 1)})
       \/ (Profile(file) = "S2" /\ Len(file.rows) # S2_ROW_COUNT)
Rule6(file) ==
    /\ "type" \in file.columns
    /\ \E i \in 1..Len(file.rows) :
          IF Profile(file) = "S1" THEN file.rows[i].type # "SAT"
          ELSE file.rows[i].type \notin {"GS", "UAV"}

BrokenRules(file) ==
    {n \in 1..6 : CASE n = 1 -> Rule1(file) [] n = 2 -> Rule2(file)
                    [] n = 3 -> Rule3(file) [] n = 4 -> Rule4(file)
                    [] n = 5 -> Rule5(file) [] n = 6 -> Rule6(file)}

\* the reasons that name a rule
ReasonsOf(n) ==
    CASE n = 1 -> {"filename"}
      [] n = 2 -> {"columns", "null"}
      [] n = 3 -> {"group_size"}
      [] n = 4 -> {"duplicate"}
      [] n = 5 -> {"no_data", "step", "timestamp_count", "row_count"}
      [] n = 6 -> {"type"}

Validated == pc = "validated" /\ Len(files) = 1 /\ Len(verdicts) = 1

\* C5: a readable file that breaks exactly one of the common rules 1-6 gets
\* FAIL from its validator, with a reason naming that rule; a file name off
\* the pattern and a non-uniform timestamp step each give FAIL, never ERROR
\* and never PASS.
C5_SingleViolationFails ==
    (Validated /\ files[1].readable /\ Cardinality(BrokenRules(files[1])) = 1) =>
        /\ verdicts[1].status = "FAIL"
        /\ \E n \in BrokenRules(files[1]) : verdicts[1].rule \in ReasonsOf(n)

\* the checks of validate_s2_csv that come before the role check all pass
BeforeRoleCheck(file) ==
    /\ Profile(file) = "S2"
    /\ validate_s2_csv(file).rule \in {"role", "ip", "none"}
    /\ validate_s2_csv(file).status # "ERROR"

\* rows a then b are samples of one node with no sample of it between them
Consecutive(file, a, b) ==
    /\ a.node_id = b.node_id
    /\ a.time_ms < b.time_ms
    /\ ~\E i \in 1..Len(file.rows) :
          /\ file.rows[i].node_id = a.node_id
          /\ a.time_ms < file.rows[i].time_ms
          /\ file.rows[i].time_ms < b.time_ms

IsAerial(file, id) ==
    \E i \in 1..Len(file.rows) : file.rows[i].node_id = id /\ file.rows[i].type = "UAV"

Displacement2(a, b) ==
    (a.ecef_x - b.ecef_x) * (a.ecef_x - b.ecef_x)
    + (a.ecef_y - b.ecef_y) * (a.ecef_y - b.ecef_y)
    + (a.ecef_z - b.ecef_z) * (a.ecef_z - b.ecef_z)

\* steps of aerial nodes longer than 5 m, as pairs of row indices
MovingSteps(file) ==
    {p \in (1..Len(file.rows)) \X (1..Len(file.rows)) :
        /\ IsAerial(file, file.rows[p[1]].node_id)
        /\ Consecutive(file, file.rows[p[1]], file.rows[p[2]])
        /\ Displacement2(file.rows[p[1]], file.rows[p[2]]) > 25}

\* C10: for a file that passes every earlier check of validate_s2_csv, a
\* step of an aerial node longer than 5 m whose later sample is not RELAY
\* gives FAIL (the role reason), and when every such step has RELAY on its
\* later sample the role check gives no FAIL.
C10_RelayWhenMoving ==
    (Validated /\ BeforeRoleCheck(files[1])) =>
        IF \E p \in MovingSteps(files[1]) : files[1].rows[p[2]].role # "RELAY"
        THEN verdicts[1] = [status |-> "FAIL", rule |-> "role"]
        ELSE verdicts[1].rule # "role"

C10_Witness ==
    /\ Validated /\ BeforeRoleCheck(files[1])
    /\ MovingSteps(files[1]) # {}
    /\ \E p \in MovingSteps(files[1]) :
          files[1].rows[p[2]].role = "RELAY" /\ files[1].rows[p[1]].role # "RELAY"
    /\ verdicts[1].status = "PASS"

\* the rows of a file that carry timestamp t
RowsAt(file, t) == {i \in 1..Len(file.rows) : file.rows[i].time_ms = t}

\* the timestamps of a file
TimesIn(file) == {file.rows[i].time_ms : i \in 1..Len(file.rows)}

\* a full S1 chunk: the timestamps are S1_CHUNK_STEPS values 1000 ms apart,
\* each carried by S1_GROUP_SIZE rows with S1_GROUP_SIZE different node_id
S1Grid(file) ==
    LET U  == TimesIn(file)
        lo == CHOOSE m \in U : \A x \in U : m <= x
    IN /\ Cardinality(U) = S1_CHUNK_STEPS
       /\ U = {lo + k * S1_STEP_MS : k \in 0..(S1_CHUNK_STEPS - 1)}
       /\ \A t \in U :
             /\ Cardinality(RowsAt(file, t)) = S1_GROUP_SIZE
             /\ Cardinality({file.rows[i].node_id : i \in RowsAt(file, t)})
                   = S1_GROUP_SIZE
       /\ Len(file.rows) = S1_CHUNK_STEPS * S1_GROUP_SIZE

\* C11: whenever validate_s1_csv returns PASS, the file has exactly
\* S1_CHUNK_STEPS unique time_ms values in arithmetic progression of step
\* 1000, each with exactly S1_GROUP_SIZE rows of pairwise distinct node_id,
\* hence S1_CHUNK_STEPS * S1_GROUP_SIZE rows; a file with fewer or more rows,
\* a repeated (time_ms, node_id) pair or a timestamp gap never gets PASS.
C11_PassImpliesGrid ==
    pc = "validated" =>
        \A i \in 1..Len(verdicts) :
            (Profile(files[i]) = "S1" /\ verdicts[i].status = "PASS") =>
                S1Grid(files[i])

\* a changed S1 file whose timestamps left the window of its name and that
\* still gets PASS
C11_Witness ==
    /\ Validated /\ Profile(files[1]) = "S1" /\ edits > 0
    /\ verdicts[1].status = "PASS"
    /\ S1_CHUNK_STEPS * S1_STEP_MS \in TimesIn(files[1])

====
